---- MODULE Spec2Model ----
(***************************************************************************)
(* Two-asset constant-product swap pool (NEAR contract).                   *)
(*                                                                         *)
(* State: the two optional TokenWallet slots of Contract, plus the         *)
(* cross-contract promises in flight: ft_transfer.then(on_swap_complete)   *)
(* for swaps and create_token_wallet...then(on_created_tokens_wallets)     *)
(* for provisioning.                                                       *)
(*                                                                         *)
(* held is the pool account's balance at each token contract as the        *)
(* pool's own transfers determine it: inbound transfers that end with      *)
(* refund 0 minus outbound ft_transfers that succeeded.  It is None in the *)
(* scenarios that do not follow the token contracts.                       *)
(*                                                                         *)
(* u128 is scaled to 0..U128Max and U256 to 0..U256Max, the double width.  *)
(***************************************************************************)
EXTENDS Integers, Sequences, FiniteSets, Bags, TLC

VARIABLES token1_wallet, token2_wallet, swaps, provs, held

vars == <<token1_wallet, token2_wallet, swaps, provs, held>>

----------------------------------------------------------------------------
(* Bounds *)

U128Max == 5
MaxInFlight == 1
MaxProvisioning == 1

U256Max == (U128Max + 1) * (U128Max + 1) - 1

Amounts == 0..U128Max

----------------------------------------------------------------------------
(* Identities and inputs *)

owner_id == "owner"
Accounts == {"owner", "user"}

WalletTokens == {"usdn", "usdt"}
Tokens == WalletTokens \cup {"eth"}

TOKEN_DECIMALS == 6

RequiredAttachedNear == 2
AttachedNear == {1, 2}

SwapMsg == "{\"type\":\"swap\"}"
Msgs == {SwapMsg, "{\"type\":\"deposit\"}", ""}

PromiseResults == {"Ok", "Err"}

----------------------------------------------------------------------------
(* Option / Result encodings *)

None == <<>>
Some(w) == <<w>>
IsSome(o) == o # <<>>
Unwrap(o) == o[1]

NoValue == -1

checked_add(a, b, max) == IF a + b > max THEN NoValue ELSE a + b
checked_sub(a, b) == IF a < b THEN NoValue ELSE a - b
checked_div(a, b) == IF b = 0 THEN NoValue ELSE a \div b
checked_mul(a, b, max) == IF a * b > max THEN NoValue ELSE a * b

----------------------------------------------------------------------------
(* Token contracts: the pool account's balances *)

(* An inbound ft_transfer_call of amount that ends with refund 0.          *)
Credit(h, token_id, amount) ==
    IF IsSome(h) THEN Some([Unwrap(h) EXCEPT ![token_id] = @ + amount]) ELSE h

(* An outbound ft_transfer of amount that succeeded.                       *)
Debit(h, token_id, amount) ==
    IF IsSome(h) THEN Some([Unwrap(h) EXCEPT ![token_id] = @ - amount]) ELSE h

(* ft_transfer fails when the sender's balance is below the amount.        *)
CanPay(h, token_id, amount) == IsSome(h) => Unwrap(h)[token_id] >= amount

----------------------------------------------------------------------------
(* TokenWallet *)

TokenWallet_new(token_id, metadata) ==
    [token_id |-> token_id, metadata |-> metadata, deposit |-> 0, liquidity |-> 0]

(* Variant: every account passes the owner check.                          *)
is_owner_anyone(account_id) == TRUE

is_owner(account_id) == account_id = owner_id

(* serde_json::from_str::<TransferCommand>(&msg): only an object whose     *)
(* "type" is "swap" parses; anything else is an error.                     *)
parse_TransferCommand(msg) ==
    IF msg = SwapMsg THEN "Swap" ELSE "Err"

(* Variant: the product is taken at single width.                          *)
compute_tokens_ratio_single_width(token1_amount, token2_amount) ==
    LET r == checked_mul(token1_amount, token2_amount, U128Max)
    IN IF r = NoValue THEN [ok |-> FALSE, err |-> "Computation overflow", val |-> NoValue]
       ELSE [ok |-> TRUE, err |-> "", val |-> r]

compute_tokens_ratio(token1_amount, token2_amount) ==
    LET r == checked_mul(token1_amount, token2_amount, U256Max)
    IN IF r = NoValue THEN [ok |-> FALSE, err |-> "Computation overflow", val |-> NoValue]
       ELSE [ok |-> TRUE, err |-> "", val |-> r]

get_swap_tokens_wallets_mut(t1w, t2w, token_id_in) ==
    IF ~IsSome(t1w) THEN [ok |-> FALSE, err |-> "Token1 wallet is not registered"]
    ELSE IF ~IsSome(t2w) THEN [ok |-> FALSE, err |-> "Token2 wallet is not registered"]
    ELSE IF token_id_in = Unwrap(t1w).token_id
         THEN [ok |-> TRUE, err |-> "", win |-> Unwrap(t1w), wout |-> Unwrap(t2w),
               token1_is_input |-> TRUE]
         ELSE [ok |-> TRUE, err |-> "", win |-> Unwrap(t2w), wout |-> Unwrap(t1w),
               token1_is_input |-> FALSE]

(* Variant: the two match arms return each other's wallet.                 *)
get_token_wallet_mut_crossed(t1w, t2w, token_id) ==
    IF ~IsSome(t1w) THEN [ok |-> FALSE, err |-> "Token1 wallet is not registered", slot |-> 0]
    ELSE IF ~IsSome(t2w) THEN [ok |-> FALSE, err |-> "Token2 wallet is not registered", slot |-> 0]
    ELSE IF token_id = Unwrap(t1w).token_id THEN [ok |-> TRUE, err |-> "", slot |-> 2]
    ELSE IF token_id = Unwrap(t2w).token_id THEN [ok |-> TRUE, err |-> "", slot |-> 1]
    ELSE [ok |-> FALSE, err |-> "Token is not supported", slot |-> 0]

(* get_token_wallet_mut: 0 when no wallet matches, else the slot number.   *)
get_token_wallet_mut(t1w, t2w, token_id) ==
    IF ~IsSome(t1w) THEN [ok |-> FALSE, err |-> "Token1 wallet is not registered", slot |-> 0]
    ELSE IF ~IsSome(t2w) THEN [ok |-> FALSE, err |-> "Token2 wallet is not registered", slot |-> 0]
    ELSE IF token_id = Unwrap(t1w).token_id THEN [ok |-> TRUE, err |-> "", slot |-> 1]
    ELSE IF token_id = Unwrap(t2w).token_id THEN [ok |-> TRUE, err |-> "", slot |-> 2]
    ELSE [ok |-> FALSE, err |-> "Token is not supported", slot |-> 0]

----------------------------------------------------------------------------
(* SwapProvider *)

(* Variant: the slot-1 quotient is rounded up.                             *)
swap_amount_out_rounds_up(liquidity_in, liquidity_out, token1_is_input, amount_in, ratio) ==
    IF token1_is_input
    THEN LET sum == checked_add(liquidity_in, amount_in, U256Max)
             res == IF sum = NoValue THEN NoValue ELSE checked_div(ratio + sum - 1, sum)
         IN IF res = NoValue THEN NoValue ELSE checked_sub(liquidity_out, res)
    ELSE LET sub == checked_sub(liquidity_in, amount_in)
             res == IF sub = NoValue THEN NoValue ELSE checked_div(ratio, sub)
         IN IF res = NoValue THEN NoValue ELSE checked_sub(res, liquidity_out)

(* Variant: the slot-2 branch computes the slot-1 expression.              *)
swap_amount_out_one_branch(liquidity_in, liquidity_out, token1_is_input, amount_in, ratio) ==
    LET sum == checked_add(liquidity_in, amount_in, U256Max)
        res == IF sum = NoValue THEN NoValue ELSE checked_div(ratio, sum)
    IN IF res = NoValue THEN NoValue ELSE checked_sub(liquidity_out, res)

(* The U256 chain of swap_tokens; NoValue when any checked step is None.   *)
swap_amount_out(liquidity_in, liquidity_out, token1_is_input, amount_in, ratio) ==
    IF token1_is_input
    THEN LET sum == checked_add(liquidity_in, amount_in, U256Max)
             res == IF sum = NoValue THEN NoValue ELSE checked_div(ratio, sum)
         IN IF res = NoValue THEN NoValue ELSE checked_sub(liquidity_out, res)
    ELSE LET sub == checked_sub(liquidity_in, amount_in)
             res == IF sub = NoValue THEN NoValue ELSE checked_div(ratio, sub)
         IN IF res = NoValue THEN NoValue ELSE checked_sub(res, liquidity_out)

(* Variant: the staged input liquidity is a wrapping add.                  *)
staged_liquidity_in_wrapping(liquidity, amount_in) == (liquidity + amount_in) % (U128Max + 1)

(* token_wallet_in_new.liquidity, token_wallet_out_new.liquidity (u128).   *)
staged_liquidity_in(liquidity, amount_in) == checked_add(liquidity, amount_in, U128Max)
staged_liquidity_out(liquidity, amount_out) == checked_sub(liquidity, amount_out)

SwapErr(e) == [res |-> "err", err |-> e, cont |-> None]
SwapPanic(e) == [res |-> "panic", err |-> e, cont |-> None]

(* Synchronous phase of a swap.  "promise" carries the continuation: the   *)
(* ft_transfer request (its receiver is sender_id, which the callback      *)
(* never sees and the state does not keep) and the arguments bound to      *)
(* on_swap_complete.                                                       *)
swap_tokens(t1w, t2w, sender_id, token_id_in, amount_in) ==
    LET ws == get_swap_tokens_wallets_mut(t1w, t2w, token_id_in)
    IN IF ~ws.ok THEN SwapErr(ws.err)
       ELSE
       LET ratio == compute_tokens_ratio(ws.win.liquidity, ws.wout.liquidity)
       IN IF ~ratio.ok THEN SwapErr(ratio.err)
          ELSE
          LET out256 == swap_amount_out(ws.win.liquidity, ws.wout.liquidity,
                                        ws.token1_is_input, amount_in, ratio.val)
          IN IF out256 = NoValue THEN SwapErr("Computation overflow")
             ELSE IF out256 > U128Max THEN SwapPanic("Integer overflow when casting to u128")
             ELSE
             LET amount_out == out256
                 in_liq == staged_liquidity_in(ws.win.liquidity, amount_in)
                 out_liq == staged_liquidity_out(ws.wout.liquidity, amount_out)
             IN IF in_liq = NoValue THEN SwapErr("Input token liquidity overflow")
                ELSE IF out_liq = NoValue THEN SwapErr("Output token liquidity overflow")
                ELSE [res |-> "promise", err |-> "",
                      cont |-> Some([token_wallet_in |-> [ws.win EXCEPT !.liquidity = in_liq],
                                     token_wallet_out |-> [ws.wout EXCEPT !.liquidity = out_liq],
                                     token1_is_input |-> ws.token1_is_input,
                                     amount_in |-> amount_in,
                                     transfer |-> [token |-> ws.wout.token_id,
                                                   amount |-> amount_out]])]

on_transfer_swap(t1w, t2w, sender_id, token_id_in, amount_in) ==
    swap_tokens(t1w, t2w, sender_id, token_id_in, amount_in)

(* Variant: an owner deposit for which no wallet is found is kept.         *)
on_transfer_deposit_absorbs(t1w, t2w, sender_id, token_id, amount) ==
    IF ~is_owner(sender_id)
    THEN [res |-> "err", err |-> "Deposit can be added only by contract owner",
          t1w |-> t1w, t2w |-> t2w]
    ELSE
    LET g == get_token_wallet_mut(t1w, t2w, token_id)
    IN IF ~g.ok THEN [res |-> "ok", err |-> "", t1w |-> t1w, t2w |-> t2w]
       ELSE
       LET w == IF g.slot = 1 THEN Unwrap(t1w) ELSE Unwrap(t2w)
           d == checked_add(w.deposit, amount, U128Max)
       IN IF d = NoValue
          THEN [res |-> "err", err |-> "Token deposit overflow", t1w |-> t1w, t2w |-> t2w]
          ELSE [res |-> "ok", err |-> "",
                t1w |-> IF g.slot = 1 THEN Some([w EXCEPT !.deposit = d]) ELSE t1w,
                t2w |-> IF g.slot = 2 THEN Some([w EXCEPT !.deposit = d]) ELSE t2w]

(* Deposit route of ft_on_transfer; returns the in-memory wallets.         *)
on_transfer_deposit(t1w, t2w, sender_id, token_id, amount) ==
    IF ~is_owner(sender_id)
    THEN [res |-> "err", err |-> "Deposit can be added only by contract owner",
          t1w |-> t1w, t2w |-> t2w]
    ELSE
    LET g == get_token_wallet_mut(t1w, t2w, token_id)
    IN IF ~g.ok THEN [res |-> "err", err |-> g.err, t1w |-> t1w, t2w |-> t2w]
       ELSE
       LET w == IF g.slot = 1 THEN Unwrap(t1w) ELSE Unwrap(t2w)
           d == checked_add(w.deposit, amount, U128Max)
       IN IF d = NoValue
          THEN [res |-> "err", err |-> "Token deposit overflow", t1w |-> t1w, t2w |-> t2w]
          ELSE [res |-> "ok", err |-> "",
                t1w |-> IF g.slot = 1 THEN Some([w EXCEPT !.deposit = d]) ELSE t1w,
                t2w |-> IF g.slot = 2 THEN Some([w EXCEPT !.deposit = d]) ELSE t2w]

(* The promise ft_transfer.then(on_swap_complete) in flight: the arguments *)
(* bound to the callback and the contract method that scheduled it.        *)
Scheduled(c, entry) ==
    [token_wallet_in |-> c.token_wallet_in, token_wallet_out |-> c.token_wallet_out,
     token1_is_input |-> c.token1_is_input, amount_in |-> c.amount_in,
     transfer |-> c.transfer, entry |-> entry]

(* FungibleTokenReceiver::ft_on_transfer; token_id is the predecessor.     *)
(* A handler error is logged and becomes Value(amount); Ok passes the      *)
(* handler's value or promise through; a panic aborts the call and         *)
(* nothing is written.                                                     *)
ft_on_transfer_call(t1w, t2w, token_id, sender_id, amount, msg) ==
    IF parse_TransferCommand(msg) = "Swap"
    THEN LET r == on_transfer_swap(t1w, t2w, sender_id, token_id, amount)
         IN [route |-> "swap", res |-> IF r.res = "err" THEN "value" ELSE r.res, err |-> r.err,
             refund |-> IF r.res = "err" THEN amount ELSE NoValue,
             t1w |-> t1w, t2w |-> t2w, cont |-> r.cont]
    ELSE LET r == on_transfer_deposit(t1w, t2w, sender_id, token_id, amount)
         IN [route |-> "deposit", res |-> "value", err |-> r.err,
             refund |-> IF r.res = "err" THEN amount ELSE 0,
             t1w |-> r.t1w, t2w |-> r.t2w, cont |-> None]

(* ft_on_transfer as a step, with at most limit swaps suspended at once.   *)
(* A deposit that is kept stays with the pool; a swap's inbound amount is  *)
(* settled by the value its callback returns.                              *)
ft_on_transfer_within(limit, token_id, sender_id, amount, msg) ==
    LET r == ft_on_transfer_call(token1_wallet, token2_wallet, token_id, sender_id, amount, msg)
    IN /\ IsSome(r.cont) => BagCardinality(swaps) < limit
       /\ token1_wallet' = r.t1w
       /\ token2_wallet' = r.t2w
       /\ swaps' = IF IsSome(r.cont)
                   THEN swaps (+) SetToBag({Scheduled(Unwrap(r.cont), "ft_on_transfer")})
                   ELSE swaps
       /\ held' = IF r.res = "value" /\ r.refund = 0 THEN Credit(held, token_id, amount) ELSE held
       /\ UNCHANGED provs

ft_on_transfer(token_id, sender_id, amount, msg) ==
    ft_on_transfer_within(MaxInFlight, token_id, sender_id, amount, msg)

(* SwapProvider::swap_tokens called as a contract method: near_bindgen     *)
(* exports every method of a trait impl, and swap_tokens checks neither    *)
(* the predecessor nor any payment.  Err panics under #[handle_result];    *)
(* nothing is written in either case.                                      *)
swap_tokens_entry(sender_id, token_id_in, amount_in) ==
    LET r == swap_tokens(token1_wallet, token2_wallet, sender_id, token_id_in, amount_in)
    IN /\ IsSome(r.cont) => BagCardinality(swaps) < MaxInFlight
       /\ swaps' = IF IsSome(r.cont)
                   THEN swaps (+) SetToBag({Scheduled(Unwrap(r.cont), "swap_tokens")})
                   ELSE swaps
       /\ UNCHANGED <<token1_wallet, token2_wallet, provs, held>>

(* Variant: the success arm stores the input wallet only.                  *)
on_swap_complete_call_input_only(t1w, t2w, p, transfer_result) ==
    IF transfer_result = "Ok"
    THEN IF p.token1_is_input
         THEN [t1w |-> Some(p.token_wallet_in), t2w |-> t2w, refund |-> 0]
         ELSE [t1w |-> t1w, t2w |-> Some(p.token_wallet_in), refund |-> 0]
    ELSE [t1w |-> t1w, t2w |-> t2w, refund |-> p.amount_in]

(* Variant: the staged wallets are stored whatever the transfer result.    *)
on_swap_complete_call_store_on_err(t1w, t2w, p, transfer_result) ==
    LET w1 == IF p.token1_is_input THEN p.token_wallet_in ELSE p.token_wallet_out
        w2 == IF p.token1_is_input THEN p.token_wallet_out ELSE p.token_wallet_in
    IN [t1w |-> Some(w1), t2w |-> Some(w2),
        refund |-> IF transfer_result = "Ok" THEN 0 ELSE p.amount_in]

(* Variant: the success arm commits and also returns amount_in.            *)
on_swap_complete_call_commit_and_refund(t1w, t2w, p, transfer_result) ==
    IF transfer_result = "Ok"
    THEN IF p.token1_is_input
         THEN [t1w |-> Some(p.token_wallet_in), t2w |-> Some(p.token_wallet_out),
               refund |-> p.amount_in]
         ELSE [t1w |-> Some(p.token_wallet_out), t2w |-> Some(p.token_wallet_in),
               refund |-> p.amount_in]
    ELSE [t1w |-> t1w, t2w |-> t2w, refund |-> p.amount_in]

(* #[private] callback of the ft_transfer promise issued by swap_tokens.   *)
on_swap_complete_call(t1w, t2w, p, transfer_result) ==
    IF transfer_result = "Ok"
    THEN IF p.token1_is_input
         THEN [t1w |-> Some(p.token_wallet_in), t2w |-> Some(p.token_wallet_out), refund |-> 0]
         ELSE [t1w |-> Some(p.token_wallet_out), t2w |-> Some(p.token_wallet_in), refund |-> 0]
    ELSE [t1w |-> t1w, t2w |-> t2w, refund |-> p.amount_in]

(* The wallets the swap read when it was computed, rebuilt from its        *)
(* continuation, against the wallets committed now.                        *)
PoolChangedSince(p, t1w, t2w) ==
    LET pre_in == [p.token_wallet_in EXCEPT !.liquidity = @ - p.amount_in]
        pre_out == [p.token_wallet_out EXCEPT !.liquidity = @ + p.transfer.amount]
    IN IF p.token1_is_input THEN <<t1w, t2w>> # <<Some(pre_in), Some(pre_out)>>
                            ELSE <<t1w, t2w>> # <<Some(pre_out), Some(pre_in)>>

on_swap_complete(p, transfer_result) ==
    LET r == on_swap_complete_call(token1_wallet, token2_wallet, p, transfer_result)
    IN /\ BagIn(p, swaps)
       /\ transfer_result = "Ok" => CanPay(held, p.transfer.token, p.transfer.amount)
       /\ swaps' = swaps (-) SetToBag({p})
       /\ token1_wallet' = r.t1w
       /\ token2_wallet' = r.t2w
       /\ held' = IF transfer_result # "Ok" THEN held
                  ELSE IF p.entry = "ft_on_transfer" /\ r.refund = 0
                  THEN Credit(Debit(held, p.transfer.token, p.transfer.amount),
                              p.token_wallet_in.token_id, p.amount_in)
                  ELSE Debit(held, p.transfer.token, p.transfer.amount)
       /\ UNCHANGED provs

----------------------------------------------------------------------------
(* Liquidity management *)

LiqResult(res, err, w1, w2) == [res |-> res, err |-> err, t1w |-> Some(w1), t2w |-> Some(w2)]

(* Variant: each wallet's liquidity is raised by the other's amount.       *)
add_liquidity_body_crossed(t1w, t2w, amounts) ==
    IF ~IsSome(t1w) THEN [res |-> "err", err |-> "Token1 wallet is not created", t1w |-> t1w, t2w |-> t2w]
    ELSE IF ~IsSome(t2w) THEN [res |-> "err", err |-> "Token2 wallet is not created", t1w |-> t1w, t2w |-> t2w]
    ELSE
    LET w1 == Unwrap(t1w)
        w2 == Unwrap(t2w)
        d1 == checked_sub(w1.deposit, amounts[1])
        d2 == checked_sub(w2.deposit, amounts[2])
        l1 == checked_add(w1.liquidity, amounts[2], U128Max)
        l2 == checked_add(w2.liquidity, amounts[1], U128Max)
    IN IF d1 = NoValue THEN LiqResult("err", "Not enough deposit for Token1", w1, w2)
       ELSE IF d2 = NoValue THEN LiqResult("err", "Not enough deposit for Token2", w1, w2)
       ELSE IF l1 = NoValue THEN LiqResult("err", "Liquidity overflow for Token1", w1, w2)
       ELSE IF l2 = NoValue THEN LiqResult("err", "Liquidity overflow for Token2", w1, w2)
       ELSE LiqResult("ok", "", [w1 EXCEPT !.deposit = d1, !.liquidity = l1],
                                [w2 EXCEPT !.deposit = d2, !.liquidity = l2])

(* Body of add_liquidity after assert_owner, statement by statement; the   *)
(* wallets returned are the in-memory ones at the point of return.         *)
add_liquidity_body(t1w, t2w, amounts) ==
    IF ~IsSome(t1w) THEN [res |-> "err", err |-> "Token1 wallet is not created", t1w |-> t1w, t2w |-> t2w]
    ELSE IF ~IsSome(t2w) THEN [res |-> "err", err |-> "Token2 wallet is not created", t1w |-> t1w, t2w |-> t2w]
    ELSE
    LET w1 == Unwrap(t1w)
        w2 == Unwrap(t2w)
        d1 == checked_sub(w1.deposit, amounts[1])
    IN IF d1 = NoValue THEN LiqResult("err", "Not enough deposit for Token1", w1, w2)
       ELSE
       LET w1a == [w1 EXCEPT !.deposit = d1]
           d2 == checked_sub(w2.deposit, amounts[2])
       IN IF d2 = NoValue THEN LiqResult("err", "Not enough deposit for Token2", w1a, w2)
          ELSE
          LET w2a == [w2 EXCEPT !.deposit = d2]
              l1 == checked_add(w1a.liquidity, amounts[1], U128Max)
          IN IF l1 = NoValue THEN LiqResult("err", "Liquidity overflow for Token1", w1a, w2a)
             ELSE
             LET w1b == [w1a EXCEPT !.liquidity = l1]
                 l2 == checked_add(w2a.liquidity, amounts[2], U128Max)
             IN IF l2 = NoValue THEN LiqResult("err", "Liquidity overflow for Token2", w1b, w2a)
                ELSE LiqResult("ok", "", w1b, [w2a EXCEPT !.liquidity = l2])

remove_liquidity_body(t1w, t2w, amounts) ==
    IF ~IsSome(t1w) THEN [res |-> "err", err |-> "Token1 wallet is not created", t1w |-> t1w, t2w |-> t2w]
    ELSE IF ~IsSome(t2w) THEN [res |-> "err", err |-> "Token2 wallet is not created", t1w |-> t1w, t2w |-> t2w]
    ELSE
    LET w1 == Unwrap(t1w)
        w2 == Unwrap(t2w)
        l1 == checked_sub(w1.liquidity, amounts[1])
    IN IF l1 = NoValue THEN LiqResult("err", "Not enough liquidity for Token1", w1, w2)
       ELSE
       LET w1a == [w1 EXCEPT !.liquidity = l1]
           l2 == checked_sub(w2.liquidity, amounts[2])
       IN IF l2 = NoValue THEN LiqResult("err", "Not enough liquidity for Token2", w1a, w2)
          ELSE
          LET w2a == [w2 EXCEPT !.liquidity = l2]
              d1 == checked_add(w1a.deposit, amounts[1], U128Max)
          IN IF d1 = NoValue THEN LiqResult("err", "Deposit overflow for Token1", w1a, w2a)
             ELSE
             LET w1b == [w1a EXCEPT !.deposit = d1]
                 d2 == checked_add(w2a.deposit, amounts[2], U128Max)
             IN IF d2 = NoValue THEN LiqResult("err", "Deposit overflow for Token2", w1b, w2a)
                ELSE LiqResult("ok", "", w1b, [w2a EXCEPT !.deposit = d2])

(* Variant: the in-memory state is written back whatever the result.       *)
handle_result_commit_always(r, committed) == <<r.t1w, r.t2w>>

(* #[handle_result] entry point: Ok writes the in-memory state back, Err   *)
(* panics with the message and the call leaves storage as it was.          *)
handle_result_commit(r, committed) ==
    IF r.res = "ok" THEN <<r.t1w, r.t2w>> ELSE committed

(* Variant: the body runs on the staged wallets of a swap in flight, when  *)
(* there is one.                                                           *)
add_liquidity_call_on_staged(t1w, t2w, predecessor, amounts) ==
    LET p == CHOOSE q \in BagToSet(swaps) : TRUE
        staged == IF p.token1_is_input THEN <<Some(p.token_wallet_in), Some(p.token_wallet_out)>>
                                       ELSE <<Some(p.token_wallet_out), Some(p.token_wallet_in)>>
        r == IF ~is_owner(predecessor)
             THEN [res |-> "panic", err |-> "Not allowed", t1w |-> t1w, t2w |-> t2w]
             ELSE IF swaps = EmptyBag \/ ~IsSome(t1w) \/ ~IsSome(t2w)
             THEN add_liquidity_body(t1w, t2w, amounts)
             ELSE add_liquidity_body(staged[1], staged[2], amounts)
        c == handle_result_commit(r, <<t1w, t2w>>)
    IN [res |-> r.res, err |-> r.err, mem |-> <<r.t1w, r.t2w>>, t1w |-> c[1], t2w |-> c[2]]

(* Variant: the body runs without assert_owner.                            *)
add_liquidity_call_unguarded(t1w, t2w, predecessor, amounts) ==
    LET r == add_liquidity_body(t1w, t2w, amounts)
        c == handle_result_commit(r, <<t1w, t2w>>)
    IN [res |-> r.res, err |-> r.err, mem |-> <<r.t1w, r.t2w>>, t1w |-> c[1], t2w |-> c[2]]

(* assert_owner panics before the body runs.  mem is the in-memory state  *)
(* at the point of return, t1w/t2w the state the call leaves in storage.   *)
add_liquidity_call(t1w, t2w, predecessor, amounts) ==
    LET r == IF ~is_owner(predecessor)
             THEN [res |-> "panic", err |-> "Not allowed", t1w |-> t1w, t2w |-> t2w]
             ELSE add_liquidity_body(t1w, t2w, amounts)
        c == handle_result_commit(r, <<t1w, t2w>>)
    IN [res |-> r.res, err |-> r.err, mem |-> <<r.t1w, r.t2w>>, t1w |-> c[1], t2w |-> c[2]]

add_liquidity(predecessor, amounts) ==
    LET r == add_liquidity_call(token1_wallet, token2_wallet, predecessor, amounts)
    IN /\ token1_wallet' = r.t1w
       /\ token2_wallet' = r.t2w
       /\ UNCHANGED <<swaps, provs, held>>

(* Variant: slot 2's deposit is not credited with the removed amount.      *)
remove_liquidity_call_uncredited(t1w, t2w, predecessor, amounts) ==
    LET r == IF ~is_owner(predecessor)
             THEN [res |-> "panic", err |-> "Not allowed", t1w |-> t1w, t2w |-> t2w]
             ELSE remove_liquidity_body(t1w, t2w, amounts)
        c == handle_result_commit(r, <<t1w, t2w>>)
    IN [res |-> r.res, err |-> r.err, mem |-> <<r.t1w, r.t2w>>, t1w |-> c[1],
        t2w |-> IF r.res = "ok" THEN Some([Unwrap(c[2]) EXCEPT !.deposit = Unwrap(t2w).deposit])
                ELSE c[2]]

(* Variant: a removal that would empty a wallet's liquidity is refused.    *)
remove_liquidity_call_min_floor(t1w, t2w, predecessor, amounts) ==
    LET drains == /\ IsSome(t1w) /\ IsSome(t2w)
                  /\ \/ amounts[1] = Unwrap(t1w).liquidity
                     \/ amounts[2] = Unwrap(t2w).liquidity
        r == IF ~is_owner(predecessor)
             THEN [res |-> "panic", err |-> "Not allowed", t1w |-> t1w, t2w |-> t2w]
             ELSE IF drains
             THEN [res |-> "err", err |-> "Minimum liquidity", t1w |-> t1w, t2w |-> t2w]
             ELSE remove_liquidity_body(t1w, t2w, amounts)
        c == handle_result_commit(r, <<t1w, t2w>>)
    IN [res |-> r.res, err |-> r.err, mem |-> <<r.t1w, r.t2w>>, t1w |-> c[1], t2w |-> c[2]]

remove_liquidity_call(t1w, t2w, predecessor, amounts) ==
    LET r == IF ~is_owner(predecessor)
             THEN [res |-> "panic", err |-> "Not allowed", t1w |-> t1w, t2w |-> t2w]
             ELSE remove_liquidity_body(t1w, t2w, amounts)
        c == handle_result_commit(r, <<t1w, t2w>>)
    IN [res |-> r.res, err |-> r.err, mem |-> <<r.t1w, r.t2w>>, t1w |-> c[1], t2w |-> c[2]]

remove_liquidity(predecessor, amounts) ==
    LET r == remove_liquidity_call(token1_wallet, token2_wallet, predecessor, amounts)
    IN /\ token1_wallet' = r.t1w
       /\ token2_wallet' = r.t2w
       /\ UNCHANGED <<swaps, provs, held>>

(* U256::to_string: the decimal digits, most significant first, with no   *)
(* leading zero; "0" for zero.                                             *)
DecimalDigits == <<"0", "1", "2", "3", "4", "5", "6", "7", "8", "9">>

RECURSIVE U256_to_string(_)
U256_to_string(n) ==
    IF n < 10 THEN <<DecimalDigits[n + 1]>>
    ELSE Append(U256_to_string(n \div 10), DecimalDigits[(n % 10) + 1])

(* Variant: the view reports the deposits as amounts.                      *)
get_pool_reports_deposits(t1w, t2w) ==
    IF ~IsSome(t1w) THEN [ok |-> FALSE, err |-> "Token1 wallet is not created"]
    ELSE IF ~IsSome(t2w) THEN [ok |-> FALSE, err |-> "Token2 wallet is not created"]
    ELSE LET ratio == compute_tokens_ratio(Unwrap(t1w).liquidity, Unwrap(t2w).liquidity)
         IN IF ~ratio.ok THEN [ok |-> FALSE, err |-> ratio.err]
            ELSE [ok |-> TRUE, err |-> "",
                  token_ids |-> <<Unwrap(t1w).token_id, Unwrap(t2w).token_id>>,
                  decimals |-> <<Unwrap(t1w).metadata.decimals, Unwrap(t2w).metadata.decimals>>,
                  amounts |-> <<Unwrap(t1w).deposit, Unwrap(t2w).deposit>>,
                  ratio |-> U256_to_string(ratio.val)]

(* View call: the PoolView, or the error.                                  *)
get_pool(t1w, t2w) ==
    IF ~IsSome(t1w) THEN [ok |-> FALSE, err |-> "Token1 wallet is not created"]
    ELSE IF ~IsSome(t2w) THEN [ok |-> FALSE, err |-> "Token2 wallet is not created"]
    ELSE LET ratio == compute_tokens_ratio(Unwrap(t1w).liquidity, Unwrap(t2w).liquidity)
         IN IF ~ratio.ok THEN [ok |-> FALSE, err |-> ratio.err]
            ELSE [ok |-> TRUE, err |-> "",
                  token_ids |-> <<Unwrap(t1w).token_id, Unwrap(t2w).token_id>>,
                  decimals |-> <<Unwrap(t1w).metadata.decimals, Unwrap(t2w).metadata.decimals>>,
                  amounts |-> <<Unwrap(t1w).liquidity, Unwrap(t2w).liquidity>>,
                  ratio |-> U256_to_string(ratio.val)]

----------------------------------------------------------------------------
(* Wallet provisioning *)

(* Schedules create_token_wallet for both tokens joined with the callback. *)
create_wallets(token1, token2) ==
    provs (+) SetToBag({[token1_id |-> token1, token2_id |-> token2]})

owner_create_wallets(predecessor, attached, token1, token2) ==
    LET panic == IF attached # RequiredAttachedNear THEN "Requires exactly 2 NEAR to create wallets"
                 ELSE IF ~is_owner(predecessor) THEN "Not allowed"
                 ELSE ""
    IN /\ panic = "" => BagCardinality(provs) < MaxProvisioning
       /\ provs' = IF panic = "" THEN create_wallets(token1, token2) ELSE provs
       /\ UNCHANGED <<token1_wallet, token2_wallet, swaps, held>>

FtMetadata == [decimals |-> TOKEN_DECIMALS]

(* Variant: the callback does not look at token2's storage_deposit result. *)
on_created_tokens_wallets_call_unchecked(t1w, t2w, p, token1_metadata, token1_wallet_storage_balance, token2_metadata, token2_wallet_storage_balance) ==
    LET panic == IF token1_wallet_storage_balance = "Err" THEN "Token1 wallet failed to register"
                 ELSE IF token1_metadata = "Err" THEN "Failed to fetch Token1 metadata"
                 ELSE IF token2_metadata = "Err" THEN "Failed to fetch Token2 metadata"
                 ELSE ""
    IN [panic |-> panic,
        t1w |-> IF panic = "" THEN Some(TokenWallet_new(p.token1_id, FtMetadata)) ELSE t1w,
        t2w |-> IF panic = "" THEN Some(TokenWallet_new(p.token2_id, FtMetadata)) ELSE t2w]

(* #[private] callback; each unwrap_or_else panics on Err, and a panic     *)
(* aborts the whole callback: the assignment of token1_wallet made before  *)
(* a later panic is not written.                                           *)
on_created_tokens_wallets_call(t1w, t2w, p, token1_metadata, token1_wallet_storage_balance, token2_metadata, token2_wallet_storage_balance) ==
    LET panic == IF token1_wallet_storage_balance = "Err" THEN "Token1 wallet failed to register"
                 ELSE IF token1_metadata = "Err" THEN "Failed to fetch Token1 metadata"
                 ELSE IF token2_wallet_storage_balance = "Err" THEN "Token2 wallet failed to register"
                 ELSE IF token2_metadata = "Err" THEN "Failed to fetch Token2 metadata"
                 ELSE ""
    IN [panic |-> panic,
        t1w |-> IF panic = "" THEN Some(TokenWallet_new(p.token1_id, FtMetadata)) ELSE t1w,
        t2w |-> IF panic = "" THEN Some(TokenWallet_new(p.token2_id, FtMetadata)) ELSE t2w]

on_created_tokens_wallets(p, token1_metadata, token1_wallet_storage_balance, token2_metadata, token2_wallet_storage_balance) ==
    LET r == on_created_tokens_wallets_call(token1_wallet, token2_wallet, p, token1_metadata, token1_wallet_storage_balance, token2_metadata, token2_wallet_storage_balance)
    IN /\ BagIn(p, provs)
       /\ provs' = provs (-) SetToBag({p})
       /\ token1_wallet' = r.t1w
       /\ token2_wallet' = r.t2w
       /\ UNCHANGED <<swaps, held>>

----------------------------------------------------------------------------
(* Contract::init: no wallets; tokens = Some(..) schedules provisioning.   *)
Init ==
    /\ token1_wallet = None
    /\ token2_wallet = None
    /\ swaps = EmptyBag
    /\ provs \in {EmptyBag} \cup
                 {SetToBag({[token1_id |-> a, token2_id |-> b]}) : a \in WalletTokens, b \in WalletTokens}
    /\ held = None

FtOnTransfer ==
    \E token_id \in Tokens, sender_id \in Accounts, amount \in Amounts, msg \in Msgs :
        ft_on_transfer(token_id, sender_id, amount, msg)

SwapTokens ==
    \E sender_id \in Accounts, token_id_in \in Tokens, amount_in \in Amounts :
        swap_tokens_entry(sender_id, token_id_in, amount_in)

OnSwapComplete ==
    \E p \in BagToSet(swaps), transfer_result \in PromiseResults :
        on_swap_complete(p, transfer_result)

AddLiquidity ==
    \E predecessor \in Accounts, a1 \in Amounts, a2 \in Amounts :
        add_liquidity(predecessor, <<a1, a2>>)

RemoveLiquidity ==
    \E predecessor \in Accounts, a1 \in Amounts, a2 \in Amounts :
        remove_liquidity(predecessor, <<a1, a2>>)

OwnerCreateWallets ==
    \E predecessor \in Accounts, attached \in AttachedNear,
       token1 \in WalletTokens, token2 \in WalletTokens :
        owner_create_wallets(predecessor, attached, token1, token2)

OnCreatedTokensWallets ==
    \E p \in BagToSet(provs), m1 \in PromiseResults, s1 \in PromiseResults,
       m2 \in PromiseResults, s2 \in PromiseResults :
        on_created_tokens_wallets(p, m1, s1, m2, s2)

Next ==
    \/ FtOnTransfer
    \/ SwapTokens
    \/ OnSwapComplete
    \/ AddLiquidity
    \/ RemoveLiquidity
    \/ OwnerCreateWallets
    \/ OnCreatedTokensWallets

Spec == Init /\ [][Next]_vars

----------------------------------------------------------------------------
(* Owner-side scenario: provisioning callback, deposits and liquidity      *)
(* moves, no swap command is sent.                                         *)

FtOnTransferDeposit ==
    \E token_id \in Tokens, sender_id \in Accounts, amount \in Amounts, msg \in Msgs \ {SwapMsg} :
        ft_on_transfer(token_id, sender_id, amount, msg)

NextLiq ==
    \/ OnCreatedTokensWallets
    \/ FtOnTransferDeposit
    \/ AddLiquidity
    \/ RemoveLiquidity

SpecLiq == Init /\ [][NextLiq]_vars

(* Provisioning scenario: the owner's provisioning calls, their callbacks  *)
(* and deposits.                                                           *)

NextProv ==
    \/ OwnerCreateWallets
    \/ OnCreatedTokensWallets
    \/ FtOnTransferDeposit

SpecProv == Init /\ [][NextProv]_vars

(* Swap scenario: a provisioned pool with any liquidity and no deposits;   *)
(* every swap command and every swap callback.                             *)

InitSwap ==
    \E l1 \in Amounts, l2 \in Amounts :
        /\ token1_wallet = Some([TokenWallet_new("usdn", FtMetadata) EXCEPT !.liquidity = l1])
        /\ token2_wallet = Some([TokenWallet_new("usdt", FtMetadata) EXCEPT !.liquidity = l2])
        /\ swaps = EmptyBag
        /\ provs = EmptyBag
        /\ held = None

FtOnTransferSwap ==
    \E token_id \in Tokens, sender_id \in Accounts, amount \in Amounts :
        ft_on_transfer(token_id, sender_id, amount, SwapMsg)

NextSwap ==
    \/ FtOnTransferSwap
    \/ OnSwapComplete

SpecSwap == InitSwap /\ [][NextSwap]_vars

(* Entry-point scenario: the swap scenario with swap_tokens also called    *)
(* directly.                                                               *)

NextEntry ==
    \/ FtOnTransferSwap
    \/ SwapTokens
    \/ OnSwapComplete

SpecEntry == InitSwap /\ [][NextEntry]_vars

(* Suspension-gap scenario: swaps are requested on a pool with deposit 1   *)
(* and liquidity 2 on each side while it is as first set up; the owner     *)
(* adds and removes liquidity only while a swap is suspended.              *)

GapWallet(token_id) == [TokenWallet_new(token_id, FtMetadata) EXCEPT !.deposit = 1, !.liquidity = 2]

InitGap ==
    /\ token1_wallet = Some(GapWallet("usdn"))
    /\ token2_wallet = Some(GapWallet("usdt"))
    /\ swaps = EmptyBag
    /\ provs = EmptyBag
    /\ held = None

GapSwap ==
    /\ token1_wallet = Some(GapWallet("usdn"))
    /\ token2_wallet = Some(GapWallet("usdt"))
    /\ FtOnTransferSwap

GapOwner ==
    /\ swaps # EmptyBag
    /\ \/ AddLiquidity
       \/ RemoveLiquidity

NextGap ==
    \/ GapSwap
    \/ GapOwner
    \/ OnSwapComplete

SpecGap == InitGap /\ [][NextGap]_vars

(* Overlap scenario: the swap scenario with one more swap suspended at a   *)
(* time, the token contracts followed.  The pool starts holding exactly    *)
(* its liquidity, and swaps are requested while each wallet's              *)
(* deposit + liquidity agrees with the balance the pool holds.             *)

InitOverlap ==
    \E l1 \in Amounts, l2 \in Amounts :
        /\ token1_wallet = Some([TokenWallet_new("usdn", FtMetadata) EXCEPT !.liquidity = l1])
        /\ token2_wallet = Some([TokenWallet_new("usdt", FtMetadata) EXCEPT !.liquidity = l2])
        /\ swaps = EmptyBag
        /\ provs = EmptyBag
        /\ held = Some([t \in Tokens |-> IF t = "usdn" THEN l1 ELSE IF t = "usdt" THEN l2 ELSE 0])

BooksAgree ==
    /\ Unwrap(token1_wallet).deposit + Unwrap(token1_wallet).liquidity
          = Unwrap(held)[Unwrap(token1_wallet).token_id]
    /\ Unwrap(token2_wallet).deposit + Unwrap(token2_wallet).liquidity
          = Unwrap(held)[Unwrap(token2_wallet).token_id]

OverlapSwap ==
    /\ BooksAgree
    /\ \E token_id \in Tokens, sender_id \in Accounts, amount \in Amounts :
          ft_on_transfer_within(MaxInFlight + 1, token_id, sender_id, amount, SwapMsg)

NextOverlap ==
    \/ OverlapSwap
    \/ OnSwapComplete

SpecOverlap == InitOverlap /\ [][NextOverlap]_vars

(* Delivery scenario: the suspension-gap scenario, the owner alone moving  *)
(* liquidity, with the token contracts followed and no two identical swaps *)
(* suspended together, so that each suspended swap is one promise.  The runtime delivers the outcome of     *)
(* every issued ft_transfer: the callback of each suspended swap is        *)
(* eventually run.                                                         *)

InitLive ==
    /\ token1_wallet = Some(GapWallet("usdn"))
    /\ token2_wallet = Some(GapWallet("usdt"))
    /\ swaps = EmptyBag
    /\ provs = EmptyBag
    /\ held = Some([t \in Tokens |-> IF t \in WalletTokens THEN 3 ELSE 0])

(* The swaps that can be suspended on the pool as first set up.            *)
LiveSwaps ==
    {Scheduled(Unwrap(r.cont), "ft_on_transfer") :
        r \in {c \in {swap_tokens(Some(GapWallet("usdn")), Some(GapWallet("usdt")), "user", t, a) :
                         t \in WalletTokens, a \in Amounts} : c.res = "promise"}}

LiveSwap ==
    /\ token1_wallet = Some(GapWallet("usdn"))
    /\ token2_wallet = Some(GapWallet("usdt"))
    /\ \E token_id \in Tokens, sender_id \in Accounts, amount \in Amounts :
          /\ LET r == ft_on_transfer_call(token1_wallet, token2_wallet,
                                          token_id, sender_id, amount, SwapMsg)
             IN IsSome(r.cont) => ~BagIn(Scheduled(Unwrap(r.cont), "ft_on_transfer"), swaps)
          /\ ft_on_transfer(token_id, sender_id, amount, SwapMsg)

Delivered(p) == \E transfer_result \in PromiseResults : on_swap_complete(p, transfer_result)

LiveOwner ==
    /\ swaps # EmptyBag
    /\ \E a1 \in Amounts, a2 \in Amounts :
          \/ add_liquidity(owner_id, <<a1, a2>>)
          \/ remove_liquidity(owner_id, <<a1, a2>>)

NextLive ==
    \/ LiveSwap
    \/ LiveOwner
    \/ OnSwapComplete

SpecLive == InitLive /\ [][NextLive]_vars /\ \A p \in LiveSwaps : WF_vars(Delivered(p))

(* Suspension-window scenario: a pool with liquidity 2 on each side, the   *)
(* owner's deposits one unit below full (slot 1) and full (slot 2); every  *)
(* inbound transfer, swap or deposit, and every swap callback.             *)

InitWindow ==
    /\ token1_wallet = Some([TokenWallet_new("usdn", FtMetadata)
                                EXCEPT !.deposit = U128Max - 1, !.liquidity = 2])
    /\ token2_wallet = Some([TokenWallet_new("usdt", FtMetadata)
                                EXCEPT !.deposit = U128Max, !.liquidity = 2])
    /\ swaps = EmptyBag
    /\ provs = EmptyBag
    /\ held = None

NextWindow ==
    \/ FtOnTransfer
    \/ OnSwapComplete

SpecWindow == InitWindow /\ [][NextWindow]_vars

----------------------------------------------------------------------------
(* Properties *)

BothPresent == IsSome(token1_wallet) /\ IsSome(token2_wallet)

PoolIds == {Unwrap(token1_wallet).token_id, Unwrap(token2_wallet).token_id}

(* Liquidity of input and output wallet as the swap read them.             *)
PreLiquidityIn(p) == p.token_wallet_in.liquidity - p.amount_in
PreLiquidityOut(p) == p.token_wallet_out.liquidity + p.transfer.amount

(* The staged snapshots of p in slot order.                                *)
Staged(p) ==
    IF p.token1_is_input THEN <<Some(p.token_wallet_in), Some(p.token_wallet_out)>>
                         ELSE <<Some(p.token_wallet_out), Some(p.token_wallet_in)>>

(* ft_on_transfer evaluated on the committed wallets.                      *)
Transfer(token_id, sender_id, amount, msg) ==
    ft_on_transfer_call(token1_wallet, token2_wallet, token_id, sender_id, amount, msg)

(* C1: every swap that commits leaves liquidity1 * liquidity2 greater than *)
(* or equal to the product the swap was computed from.                     *)
C1_ProductNeverDecreases ==
    [][\A p \in BagToSet(swaps) :
          on_swap_complete(p, "Ok")
          => Unwrap(token1_wallet').liquidity * Unwrap(token2_wallet').liquidity
                >= PreLiquidityIn(p) * PreLiquidityOut(p)]_vars

(* C2: a swap command from a token that is neither wallet's token is       *)
(* refused: full refund, no transfer promise, wallets unchanged.           *)
C2_UnsupportedAssetRefused ==
    [][\A token_id \in Tokens, sender_id \in Accounts, amount \in Amounts :
          (/\ BothPresent
           /\ token_id \notin PoolIds
           /\ ft_on_transfer(token_id, sender_id, amount, SwapMsg))
          => /\ Transfer(token_id, sender_id, amount, SwapMsg).refund = amount
             /\ swaps' = swaps
             /\ UNCHANGED <<token1_wallet, token2_wallet>>]_vars

(* C3: the synchronous phase of a swap writes no wallet; the callback of   *)
(* every suspended swap either installs both staged snapshots together     *)
(* (transfer Ok) or writes none (transfer Err).                            *)
C3_SwapCommitsOnlyInCallback ==
    /\ \A token_id \in Tokens, sender_id \in Accounts, amount \in Amounts :
          LET r == Transfer(token_id, sender_id, amount, SwapMsg)
          IN <<r.t1w, r.t2w>> = <<token1_wallet, token2_wallet>>
    /\ \A p \in BagToSet(swaps) :
          LET ok == on_swap_complete_call(token1_wallet, token2_wallet, p, "Ok")
              err == on_swap_complete_call(token1_wallet, token2_wallet, p, "Err")
          IN /\ <<ok.t1w, ok.t2w>> = Staged(p)
             /\ <<err.t1w, err.t2w>> = <<token1_wallet, token2_wallet>>

(* A swap that moves both liquidities is suspended on the pool it was      *)
(* computed from, its callback still to come.                              *)
C3_Witness ==
    \E p \in BagToSet(swaps) :
        /\ p.amount_in > 0
        /\ p.transfer.amount > 0
        /\ ~PoolChangedSince(p, token1_wallet, token2_wallet)
        /\ Staged(p)[1] # token1_wallet
        /\ Staged(p)[2] # token2_wallet

(* C4: for every suspended swap, a failed transfer leaves the wallets      *)
(* exactly as the callback finds them, whatever happened since the swap    *)
(* was computed, and reports amount_in as the refund.                      *)
C4_FailedSwapDiscardsStage ==
    \A p \in BagToSet(swaps) :
        LET r == on_swap_complete_call(token1_wallet, token2_wallet, p, "Err")
        IN /\ r.t1w = token1_wallet
           /\ r.t2w = token2_wallet
           /\ r.refund = p.amount_in

(* A swap of a positive amount is suspended and a deposit has changed the  *)
(* pool since it was computed.                                             *)
C4_Witness ==
    \E p \in BagToSet(swaps) :
        /\ p.amount_in > 0
        /\ PoolChangedSince(p, token1_wallet, token2_wallet)
        /\ Unwrap(token1_wallet).deposit = U128Max

(* C5: every inbound transfer reports a refund, at once or through the     *)
(* swap callback, and the refund is 0 when the routed handler succeeded    *)
(* and the whole amount, with no balance changed, when it failed.          *)
C5_RefundIsAllOrNothing ==
    \A token_id \in Tokens, sender_id \in Accounts, amount \in Amounts, msg \in Msgs :
        LET r == Transfer(token_id, sender_id, amount, msg)
        IN \/ r.res = "value" /\ r.err = "" /\ r.refund = 0
           \/ /\ r.res = "value" /\ r.err # "" /\ r.refund = amount
              /\ <<r.t1w, r.t2w>> = <<token1_wallet, token2_wallet>>
           \/ /\ r.res = "promise"
              /\ on_swap_complete_call(r.t1w, r.t2w, Unwrap(r.cont), "Ok").refund = 0
              /\ on_swap_complete_call(r.t1w, r.t2w, Unwrap(r.cont), "Err").refund = amount

(* The checks of swap_tokens, read off the committed pool for a swap of    *)
(* amount of token_id: the subtraction liquidity_in - amount of the slot-2 *)
(* formula underflows; liquidity_in + amount overflows u128; the amount    *)
(* out of the constant-product formula exceeds liquidity_out.              *)
SwapUnderflows(token_id, amount) ==
    LET ws == get_swap_tokens_wallets_mut(token1_wallet, token2_wallet, token_id)
    IN ~ws.token1_is_input /\ amount > ws.win.liquidity

SwapOverflows(token_id, amount) ==
    LET ws == get_swap_tokens_wallets_mut(token1_wallet, token2_wallet, token_id)
    IN ws.win.liquidity + amount > U128Max

SwapExceedsOutput(token_id, amount) ==
    LET ws == get_swap_tokens_wallets_mut(token1_wallet, token2_wallet, token_id)
        K == ws.win.liquidity * ws.wout.liquidity
    IN IF ws.token1_is_input
       THEN /\ ws.win.liquidity + amount > 0
            /\ ws.wout.liquidity - (K \div (ws.win.liquidity + amount)) > ws.wout.liquidity
       ELSE /\ ws.win.liquidity > amount
            /\ (K \div (ws.win.liquidity - amount)) - ws.wout.liquidity > ws.wout.liquidity

C7_DepositRefusedRefundsAll ==
    \A token_id \in Tokens, sender_id \in Accounts, amount \in Amounts, msg \in Msgs \ {SwapMsg} :
        LET r == Transfer(token_id, sender_id, amount, msg)
        IN /\ r.route = "deposit"
           /\ (sender_id # owner_id \/ ~BothPresent \/ token_id \notin PoolIds)
              => /\ r.res = "value"
                 /\ r.refund = amount
                 /\ ~IsSome(r.cont)
                 /\ <<r.t1w, r.t2w>> = <<token1_wallet, token2_wallet>>

(* A pool holding deposit and liquidity, where a stranger's transfer of a  *)
(* pool token and the owner's transfer of a foreign token are refunded.    *)
C7_Witness ==
    /\ BothPresent
    /\ Unwrap(token1_wallet).deposit > 0
    /\ Unwrap(token1_wallet).deposit < U128Max
    /\ Unwrap(token2_wallet).liquidity > 0
    /\ Transfer(Unwrap(token1_wallet).token_id, "user", 1, "").refund = 1
    /\ Transfer("eth", owner_id, 1, "").refund = 1

(* The slot get_token_wallet_mut picks for a pool token: first match.      *)
SlotOf(token_id) == IF token_id = Unwrap(token1_wallet).token_id THEN 1 ELSE 2

(* C8: a deposit by the owner of a pool token that does not overflow adds  *)
(* the amount to the matching wallet's deposit, reports refund 0, and      *)
(* changes nothing else.                                                   *)
C8_DepositCreditsMatchingWallet ==
    BothPresent =>
        \A token_id \in PoolIds, amount \in Amounts, msg \in Msgs \ {SwapMsg} :
            LET r == Transfer(token_id, owner_id, amount, msg)
                w1 == Unwrap(token1_wallet)
                w2 == Unwrap(token2_wallet)
                w == IF SlotOf(token_id) = 1 THEN w1 ELSE w2
            IN w.deposit + amount <= U128Max
               => /\ r.res = "value"
                  /\ r.refund = 0
                  /\ ~IsSome(r.cont)
                  /\ r.t1w = IF SlotOf(token_id) = 1
                             THEN Some([w1 EXCEPT !.deposit = @ + amount]) ELSE token1_wallet
                  /\ r.t2w = IF SlotOf(token_id) = 2
                             THEN Some([w2 EXCEPT !.deposit = @ + amount]) ELSE token2_wallet

(* A deposit has been credited to slot 2 of a pool of two different        *)
(* tokens, and slot 1 is as provisioned.                                   *)
C8_Witness ==
    /\ BothPresent
    /\ Unwrap(token1_wallet).token_id # Unwrap(token2_wallet).token_id
    /\ Unwrap(token2_wallet).deposit > 0
    /\ Unwrap(token1_wallet).deposit = 0
    /\ Unwrap(token1_wallet).liquidity = 0
    /\ Unwrap(token2_wallet).liquidity = 0

(* C9: add_liquidity by the owner either passes all four checks and moves  *)
(* amounts[i] from deposit to liquidity in both wallets, or fails and      *)
(* leaves all four balances as they were.                                  *)
C9_AddLiquidityAllOrNothing ==
    BothPresent =>
        \A a1 \in Amounts, a2 \in Amounts :
            LET r == add_liquidity_call(token1_wallet, token2_wallet, owner_id, <<a1, a2>>)
                w1 == Unwrap(token1_wallet)
                w2 == Unwrap(token2_wallet)
            IN IF /\ w1.deposit >= a1 /\ w2.deposit >= a2
                  /\ w1.liquidity + a1 <= U128Max /\ w2.liquidity + a2 <= U128Max
               THEN /\ r.res = "ok"
                    /\ r.t1w = Some([w1 EXCEPT !.deposit = @ - a1, !.liquidity = @ + a1])
                    /\ r.t2w = Some([w2 EXCEPT !.deposit = @ - a2, !.liquidity = @ + a2])
               ELSE /\ r.res = "err"
                    /\ <<r.t1w, r.t2w>> = <<token1_wallet, token2_wallet>>

(* Slot 2's deposit check fails after slot 1's deposit was already reduced *)
(* in memory.                                                              *)
C9_Witness ==
    /\ BothPresent
    /\ \E a1 \in Amounts \ {0}, a2 \in Amounts :
          LET r == add_liquidity_call(token1_wallet, token2_wallet, owner_id, <<a1, a2>>)
          IN /\ r.err = "Not enough deposit for Token2"
             /\ Unwrap(r.mem[1]).deposit = Unwrap(token1_wallet).deposit - a1

(* C10: remove_liquidity by the owner succeeds exactly when amounts[i] is  *)
(* at most liquidity_i and deposit_i + amounts[i] fits, for both wallets,  *)
(* the whole liquidity included, and then moves amounts[i] from liquidity  *)
(* to deposit; a failure leaves all four balances as they were.            *)
C10_RemoveLiquidityUpToAll ==
    BothPresent =>
        \A a1 \in Amounts, a2 \in Amounts :
            LET r == remove_liquidity_call(token1_wallet, token2_wallet, owner_id, <<a1, a2>>)
                w1 == Unwrap(token1_wallet)
                w2 == Unwrap(token2_wallet)
            IN IF /\ a1 <= w1.liquidity /\ a2 <= w2.liquidity
                  /\ w1.deposit + a1 <= U128Max /\ w2.deposit + a2 <= U128Max
               THEN /\ r.res = "ok"
                    /\ r.t1w = Some([w1 EXCEPT !.liquidity = @ - a1, !.deposit = @ + a1])
                    /\ r.t2w = Some([w2 EXCEPT !.liquidity = @ - a2, !.deposit = @ + a2])
               ELSE /\ r.res = "err"
                    /\ <<r.t1w, r.t2w>> = <<token1_wallet, token2_wallet>>

(* A pool with liquidity on both sides that the owner can empty in one     *)
(* call.                                                                   *)
C10_Witness ==
    /\ BothPresent
    /\ Unwrap(token1_wallet).liquidity > 0
    /\ Unwrap(token2_wallet).liquidity > 0
    /\ LET r == remove_liquidity_call(token1_wallet, token2_wallet, owner_id,
                    <<Unwrap(token1_wallet).liquidity, Unwrap(token2_wallet).liquidity>>)
       IN /\ r.res = "ok"
          /\ Unwrap(r.t1w).liquidity = 0
          /\ Unwrap(r.t2w).liquidity = 0

(* C11: add_liquidity and remove_liquidity called by an account that is    *)
(* not the owner abort with "Not allowed" and write nothing, whatever the  *)
(* amounts, wallets present or not.                                        *)
C11_LiquidityOwnerOnly ==
    \A predecessor \in Accounts \ {owner_id}, a1 \in Amounts, a2 \in Amounts :
        LET add == add_liquidity_call(token1_wallet, token2_wallet, predecessor, <<a1, a2>>)
            rem == remove_liquidity_call(token1_wallet, token2_wallet, predecessor, <<a1, a2>>)
        IN /\ add.res = "panic" /\ add.err = "Not allowed"
           /\ <<add.t1w, add.t2w>> = <<token1_wallet, token2_wallet>>
           /\ rem.res = "panic" /\ rem.err = "Not allowed"
           /\ <<rem.t1w, rem.t2w>> = <<token1_wallet, token2_wallet>>

(* A pool where the owner could move positive amounts either way, so the   *)
(* refusal of the same calls from another account is the owner check.      *)
C11_Witness ==
    /\ BothPresent
    /\ \E a1 \in Amounts \ {0}, a2 \in Amounts \ {0} :
          /\ add_liquidity_call(token1_wallet, token2_wallet, owner_id, <<a1, a2>>).res = "ok"
          /\ remove_liquidity_call(token1_wallet, token2_wallet, owner_id, <<a1, a2>>).res = "ok"
          /\ add_liquidity_call(token1_wallet, token2_wallet, "user", <<a1, a2>>).res = "panic"

(* C12: when add_liquidity(amounts) by the owner succeeds, remove_liquidity *)
(* with the same amounts on the state it leaves also succeeds and gives    *)
(* back the wallets as they were before the add.                           *)
C12_AddThenRemoveRestores ==
    \A a1 \in Amounts, a2 \in Amounts :
        LET add == add_liquidity_call(token1_wallet, token2_wallet, owner_id, <<a1, a2>>)
            rem == remove_liquidity_call(add.t1w, add.t2w, owner_id, <<a1, a2>>)
        IN add.res = "ok"
           => /\ rem.res = "ok"
              /\ <<rem.t1w, rem.t2w>> = <<token1_wallet, token2_wallet>>

(* A pool with deposit and liquidity on both sides in which an add of      *)
(* positive amounts succeeds and changes both wallets.                     *)
C12_Witness ==
    /\ BothPresent
    /\ Unwrap(token1_wallet).liquidity > 0
    /\ Unwrap(token2_wallet).liquidity > 0
    /\ \E a1 \in Amounts \ {0}, a2 \in Amounts \ {0} :
          LET add == add_liquidity_call(token1_wallet, token2_wallet, owner_id, <<a1, a2>>)
          IN /\ add.res = "ok"
             /\ add.t1w # token1_wallet
             /\ add.t2w # token2_wallet

(* C13: with both wallets present, a swap of amount 0 of either pool token *)
(* is carried out with amount out 0, and its commit leaves both wallets    *)
(* as they are.                                                            *)
C13_ZeroSwapIsNoOp ==
    BothPresent =>
        \A token_id \in PoolIds, sender_id \in Accounts :
            LET r == Transfer(token_id, sender_id, 0, SwapMsg)
            IN /\ r.res = "promise"
               /\ Unwrap(r.cont).transfer.amount = 0
               /\ LET c == on_swap_complete_call(token1_wallet, token2_wallet, Unwrap(r.cont), "Ok")
                  IN <<c.t1w, c.t2w>> = <<token1_wallet, token2_wallet>>

(* C14: every swap in flight was scheduled by ft_on_transfer, that is by   *)
(* an inbound transfer of its amount_in carrying a swap command.           *)
C14_SwapsStartFromTransfers ==
    \A p \in BagToSet(swaps) : p.entry = "ft_on_transfer"

(* The provisioning callback of request p on the committed wallets.        *)
Provisioned(p, m1, s1, m2, s2) ==
    on_created_tokens_wallets_call(token1_wallet, token2_wallet, p, m1, s1, m2, s2)

(* C15: the callback of a provisioning request writes a wallet only when   *)
(* the metadata fetch and the registration of that wallet's token both     *)
(* succeeded; the wallets it writes have deposit 0 and liquidity 0, and    *)
(* get_pool then reports token1 in slot 1 and token2 in slot 2.            *)
C15_InstallNeedsBothSubOperations ==
    \A p \in BagToSet(provs) :
        \A m1 \in PromiseResults, s1 \in PromiseResults, m2 \in PromiseResults, s2 \in PromiseResults :
            LET r == Provisioned(p, m1, s1, m2, s2)
            IN IF r.panic = ""
               THEN /\ m1 = "Ok" /\ s1 = "Ok" /\ m2 = "Ok" /\ s2 = "Ok"
                    /\ Unwrap(r.t1w).deposit = 0 /\ Unwrap(r.t1w).liquidity = 0
                    /\ Unwrap(r.t2w).deposit = 0 /\ Unwrap(r.t2w).liquidity = 0
                    /\ get_pool(r.t1w, r.t2w).ok
                    /\ get_pool(r.t1w, r.t2w).token_ids = <<p.token1_id, p.token2_id>>
               ELSE <<r.t1w, r.t2w>> = <<token1_wallet, token2_wallet>>

(* A request for (usdt, usdn) is pending over an installed (usdn, usdt)    *)
(* pool that holds a deposit: its callback is still to come.               *)
C15_Witness ==
    /\ BothPresent
    /\ Unwrap(token1_wallet).token_id = "usdn"
    /\ Unwrap(token2_wallet).token_id = "usdt"
    /\ Unwrap(token1_wallet).deposit > 0
    /\ \E p \in BagToSet(provs) :
          /\ p.token1_id = "usdt" /\ p.token2_id = "usdn"
          /\ Provisioned(p, "Ok", "Ok", "Ok", "Ok").panic = ""
          /\ Provisioned(p, "Ok", "Ok", "Ok", "Err").panic # ""

(* C16: in the provisioning callback each token's wallet is installed      *)
(* exactly when that token's own metadata fetch and registration           *)
(* succeeded, whatever happened to the other token.                        *)
C16_InstallsAreIndependent ==
    \A p \in BagToSet(provs) :
        \A m1 \in PromiseResults, s1 \in PromiseResults, m2 \in PromiseResults, s2 \in PromiseResults :
            LET r == Provisioned(p, m1, s1, m2, s2)
            IN /\ r.t1w = IF m1 = "Ok" /\ s1 = "Ok"
                          THEN Some(TokenWallet_new(p.token1_id, FtMetadata)) ELSE token1_wallet
               /\ r.t2w = IF m2 = "Ok" /\ s2 = "Ok"
                          THEN Some(TokenWallet_new(p.token2_id, FtMetadata)) ELSE token2_wallet

(* C17: the successful callback of a provisioning request leaves every     *)
(* wallet that was already installed as it was: same token id, deposit     *)
(* and liquidity.                                                          *)
C17_RepeatProvisioningKeepsWallets ==
    [][\A p \in BagToSet(provs) :
          on_created_tokens_wallets(p, "Ok", "Ok", "Ok", "Ok")
          => /\ IsSome(token1_wallet) => token1_wallet' = token1_wallet
             /\ IsSome(token2_wallet) => token2_wallet' = token2_wallet]_vars

(* The number a string of decimal digits denotes.                          *)
DigitValue(d) == CHOOSE i \in 0..9 : DecimalDigits[i + 1] = d

RECURSIVE DecimalValue(_)
DecimalValue(s) ==
    IF s = <<>> THEN 0
    ELSE 10 * DecimalValue(SubSeq(s, 1, Len(s) - 1)) + DigitValue(s[Len(s)])

(* C18: with both wallets present get_pool succeeds and returns the token  *)
(* ids in slot order, the committed liquidity of slot 1 and slot 2, and    *)
(* as ratio the decimal numeral of the exact product of the two.           *)
C18_GetPoolReportsLiquidity ==
    BothPresent =>
        LET v == get_pool(token1_wallet, token2_wallet)
            w1 == Unwrap(token1_wallet)
            w2 == Unwrap(token2_wallet)
        IN /\ v.ok
           /\ v.token_ids = <<w1.token_id, w2.token_id>>
           /\ v.amounts = <<w1.liquidity, w2.liquidity>>
           /\ DecimalValue(v.ratio) = w1.liquidity * w2.liquidity
           /\ Len(v.ratio) = 1 \/ v.ratio[1] # "0"

(* After deposits and liquidity moves the pool is (usdt, usdn) with        *)
(* liquidity [3, 5], deposits left over, and get_pool's ratio reads "15".  *)
C18_Witness ==
    /\ BothPresent
    /\ Unwrap(token1_wallet).deposit > 0
    /\ Unwrap(token2_wallet).deposit = 0
    /\ LET v == get_pool(token1_wallet, token2_wallet)
       IN /\ v.ok
          /\ v.token_ids = <<"usdt", "usdn">>
          /\ v.amounts = <<3, 5>>
          /\ v.ratio = <<"1", "5">>

(* The errors that report a missing wallet.                                *)
WalletMissingErrors ==
    {"Token1 wallet is not registered", "Token2 wallet is not registered",
     "Token1 wallet is not created", "Token2 wallet is not created"}

(* C19: while a wallet is missing, get_pool, every inbound transfer (swap  *)
(* or deposit), a direct swap_tokens, add_liquidity and remove_liquidity   *)
(* all fail, for the owner with a missing-wallet error; none schedules a   *)
(* transfer and none changes the state.                                    *)
C19_InactiveWithoutWallets ==
    ~BothPresent =>
        /\ ~get_pool(token1_wallet, token2_wallet).ok
        /\ get_pool(token1_wallet, token2_wallet).err \in WalletMissingErrors
        /\ \A token_id \in Tokens, sender_id \in Accounts, amount \in Amounts :
              /\ \A msg \in Msgs :
                    LET r == Transfer(token_id, sender_id, amount, msg)
                    IN /\ r.res = "value"
                       /\ r.refund = amount
                       /\ r.err # ""
                       /\ sender_id = owner_id => r.err \in WalletMissingErrors
                       /\ ~IsSome(r.cont)
                       /\ <<r.t1w, r.t2w>> = <<token1_wallet, token2_wallet>>
              /\ LET s == swap_tokens(token1_wallet, token2_wallet, sender_id, token_id, amount)
                 IN s.res = "err" /\ s.err \in WalletMissingErrors /\ ~IsSome(s.cont)
        /\ \A predecessor \in Accounts, a1 \in Amounts, a2 \in Amounts :
              LET add == add_liquidity_call(token1_wallet, token2_wallet, predecessor, <<a1, a2>>)
                  rem == remove_liquidity_call(token1_wallet, token2_wallet, predecessor, <<a1, a2>>)
              IN /\ add.res \in {"err", "panic"}
                 /\ rem.res \in {"err", "panic"}
                 /\ predecessor = owner_id => add.err \in WalletMissingErrors
                 /\ predecessor = owner_id => rem.err \in WalletMissingErrors
                 /\ <<add.t1w, add.t2w>> = <<token1_wallet, token2_wallet>>
                 /\ <<rem.t1w, rem.t2w>> = <<token1_wallet, token2_wallet>>

(* No wallet is installed while a provisioning request is in flight, and   *)
(* the owner's deposit of one pool token comes back.                       *)
C19_Witness ==
    /\ ~BothPresent
    /\ \E p \in BagToSet(provs) :
          /\ p.token1_id # p.token2_id
          /\ Transfer(p.token1_id, owner_id, 1, "").refund = 1
          /\ Transfer(p.token2_id, "user", 1, SwapMsg).refund = 1

(* C20: while a swap is suspended the other entry points are served, and   *)
(* on the committed wallets: an owner deposit that fits is credited to     *)
(* the committed deposit; add_liquidity and remove_liquidity are checked   *)
(* against and applied to the committed balances; another swap is          *)
(* computed from the committed liquidity.  No staged balance shows.        *)
C20_GapRunsOnCommittedState ==
    (BothPresent /\ swaps # EmptyBag) =>
        LET w1 == Unwrap(token1_wallet)
            w2 == Unwrap(token2_wallet)
        IN /\ \A token_id \in PoolIds, amount \in Amounts :
                 LET w == IF SlotOf(token_id) = 1 THEN w1 ELSE w2
                     d == Transfer(token_id, owner_id, amount, "")
                     s == Transfer(token_id, "user", amount, SwapMsg)
                 IN /\ w.deposit + amount <= U128Max
                       => /\ d.refund = 0
                          /\ (IF SlotOf(token_id) = 1 THEN d.t1w ELSE d.t2w)
                                = Some([w EXCEPT !.deposit = @ + amount])
                    /\ s.res = "promise"
                       => ~PoolChangedSince(Unwrap(s.cont), token1_wallet, token2_wallet)
           /\ \A a1 \in Amounts, a2 \in Amounts :
                 LET add == add_liquidity_call(token1_wallet, token2_wallet, owner_id, <<a1, a2>>)
                     rem == remove_liquidity_call(token1_wallet, token2_wallet, owner_id, <<a1, a2>>)
                 IN /\ add.res = "ok"
                       <=> /\ w1.deposit >= a1 /\ w2.deposit >= a2
                           /\ w1.liquidity + a1 <= U128Max /\ w2.liquidity + a2 <= U128Max
                    /\ add.res = "ok"
                       => /\ add.t1w = Some([w1 EXCEPT !.deposit = @ - a1, !.liquidity = @ + a1])
                          /\ add.t2w = Some([w2 EXCEPT !.deposit = @ - a2, !.liquidity = @ + a2])
                    /\ rem.res = "ok"
                       <=> /\ a1 <= w1.liquidity /\ a2 <= w2.liquidity
                           /\ w1.deposit + a1 <= U128Max /\ w2.deposit + a2 <= U128Max
                    /\ rem.res = "ok"
                       => /\ rem.t1w = Some([w1 EXCEPT !.liquidity = @ - a1, !.deposit = @ + a1])
                          /\ rem.t2w = Some([w2 EXCEPT !.liquidity = @ - a2, !.deposit = @ + a2])

(* A swap that moves both liquidities is suspended, and since it was       *)
(* computed the owner has moved liquidity on both sides: the committed     *)
(* wallets differ from what the swap read and from what it staged.         *)
C20_Witness ==
    /\ BothPresent
    /\ \E p \in BagToSet(swaps) :
          /\ p.amount_in > 0
          /\ p.transfer.amount > 0
          /\ Unwrap(token1_wallet).liquidity \notin {2, Unwrap(Staged(p)[1]).liquidity}
          /\ Unwrap(token2_wallet).liquidity \notin {2, Unwrap(Staged(p)[2]).liquidity}
          /\ add_liquidity_call(token1_wallet, token2_wallet, owner_id, <<1, 1>>).res = "ok"

(* C21: a swap of the slot-1 asset goes through exactly when               *)
(* 0 < L_in + amount_in <= u128::MAX, and then, with K = L_in * L_out,     *)
(* amount_out = L_out - floor(K / (L_in + amount_in)), which is at most    *)
(* L_out, and the staged liquidities are L_in + amount_in and              *)
(* L_out - amount_out.                                                     *)
C21_Slot1AmountOut ==
    BothPresent =>
        \A sender_id \in Accounts, amount_in \in Amounts :
            LET L_in == Unwrap(token1_wallet).liquidity
                L_out == Unwrap(token2_wallet).liquidity
                K == L_in * L_out
                r == Transfer(Unwrap(token1_wallet).token_id, sender_id, amount_in, SwapMsg)
            IN /\ r.res = "promise" <=> (L_in + amount_in > 0 /\ L_in + amount_in <= U128Max)
               /\ r.res = "promise" =>
                    LET c == Unwrap(r.cont)
                        amount_out == L_out - (K \div (L_in + amount_in))
                    IN /\ c.token1_is_input
                       /\ c.transfer.amount = amount_out
                       /\ amount_out <= L_out
                       /\ c.token_wallet_in.liquidity = L_in + amount_in
                       /\ c.token_wallet_out.liquidity = L_out - amount_out

(* A slot-1 swap is suspended whose quotient K / (L_in + amount_in) is     *)
(* not exact, on the pool it was computed from.                            *)
C21_Witness ==
    \E p \in BagToSet(swaps) :
        /\ p.token1_is_input
        /\ p.amount_in > 0
        /\ (PreLiquidityIn(p) * PreLiquidityOut(p)) % p.token_wallet_in.liquidity # 0
        /\ ~PoolChangedSince(p, token1_wallet, token2_wallet)

(* C22: a swap of the slot-2 asset fails when amount_in >= L_in or when    *)
(* floor(K / (L_in - amount_in)) - L_out exceeds L_out; when it goes       *)
(* through, amount_out is that difference and the staged liquidities are   *)
(* L_in + amount_in and L_out - amount_out.                                *)
C22_Slot2AmountOut ==
    (BothPresent /\ Unwrap(token1_wallet).token_id # Unwrap(token2_wallet).token_id) =>
        \A sender_id \in Accounts, amount_in \in Amounts :
            LET L_in == Unwrap(token2_wallet).liquidity
                L_out == Unwrap(token1_wallet).liquidity
                K == L_in * L_out
                r == Transfer(Unwrap(token2_wallet).token_id, sender_id, amount_in, SwapMsg)
            IN /\ amount_in >= L_in => r.res # "promise"
               /\ (amount_in < L_in /\ (K \div (L_in - amount_in)) - L_out > L_out)
                     => r.res # "promise"
               /\ r.res = "promise" =>
                    LET c == Unwrap(r.cont)
                        amount_out == (K \div (L_in - amount_in)) - L_out
                    IN /\ ~c.token1_is_input
                       /\ c.transfer.amount = amount_out
                       /\ c.token_wallet_in.liquidity = L_in + amount_in
                       /\ c.token_wallet_out.liquidity = L_out - amount_out

(* A slot-2 swap of a positive amount is suspended, on the pool it was     *)
(* computed from, and a larger amount would have asked for more than       *)
(* L_out.                                                                  *)
C22_Witness ==
    \E p \in BagToSet(swaps) :
        /\ ~p.token1_is_input
        /\ p.amount_in > 0
        /\ p.transfer.amount > 0
        /\ ~PoolChangedSince(p, token1_wallet, token2_wallet)
        /\ SwapExceedsOutput(p.token_wallet_in.token_id, p.amount_in + 1)

(* The swap request for amount_in of token_id_in on a pool with the given  *)
(* slot liquidities: the transfer amount, or NoValue when it fails.        *)
SwapOutcome(liquidity1, liquidity2, token_id_in, amount_in) ==
    LET r == swap_tokens(Some([Unwrap(token1_wallet) EXCEPT !.liquidity = liquidity1]),
                         Some([Unwrap(token2_wallet) EXCEPT !.liquidity = liquidity2]),
                         "user", token_id_in, amount_in)
    IN IF r.res = "promise" THEN Unwrap(r.cont).transfer.amount ELSE NoValue

(* C23: swapping amount_in of the slot-1 asset into the pool (x, y) has    *)
(* the same outcome, the same amount_out or failure, as swapping amount_in *)
(* of the slot-2 asset into the mirrored pool (y, x).                      *)
C23_BranchesAreOneRelation ==
    (BothPresent /\ Unwrap(token1_wallet).token_id # Unwrap(token2_wallet).token_id) =>
        \A amount_in \in Amounts :
            LET x == Unwrap(token1_wallet).liquidity
                y == Unwrap(token2_wallet).liquidity
            IN SwapOutcome(x, y, Unwrap(token1_wallet).token_id, amount_in)
                  = SwapOutcome(y, x, Unwrap(token2_wallet).token_id, amount_in)

(* C24: the commit of a suspended swap leaves both deposit balances as     *)
(* they are immediately before it, whatever the owner deposited or moved   *)
(* since the swap was computed.                                            *)
C24_SwapKeepsDeposits ==
    \A p \in BagToSet(swaps) :
        LET r == on_swap_complete_call(token1_wallet, token2_wallet, p, "Ok")
        IN /\ Unwrap(r.t1w).deposit = Unwrap(token1_wallet).deposit
           /\ Unwrap(r.t2w).deposit = Unwrap(token2_wallet).deposit

(* C26: the commit of a suspended swap changes the liquidity found         *)
(* immediately before it by +amount_in on the input wallet and             *)
(* -amount_out on the output wallet, so liquidity the owner added or       *)
(* removed since the swap was computed stays.                              *)
C26_CommitKeepsLiquidityMoves ==
    \A p \in BagToSet(swaps) :
        LET r == on_swap_complete_call(token1_wallet, token2_wallet, p, "Ok")
            d1 == IF p.token1_is_input THEN p.amount_in ELSE 0 - p.transfer.amount
            d2 == IF p.token1_is_input THEN 0 - p.transfer.amount ELSE p.amount_in
        IN /\ Unwrap(r.t1w).liquidity = Unwrap(token1_wallet).liquidity + d1
           /\ Unwrap(r.t2w).liquidity = Unwrap(token2_wallet).liquidity + d2

(* deposit + liquidity of an optional wallet; 0 when there is none.        *)
WalletTotal(o) == IF IsSome(o) THEN Unwrap(o).deposit + Unwrap(o).liquidity ELSE 0

(* C28: whoever calls add_liquidity or remove_liquidity, with whatever     *)
(* amounts, and whether the call succeeds or fails, each wallet's          *)
(* deposit + liquidity is the same after the call as before it.            *)
C28_LiquidityMovesStayInWallet ==
    \A predecessor \in Accounts, a1 \in Amounts, a2 \in Amounts :
        LET add == add_liquidity_call(token1_wallet, token2_wallet, predecessor, <<a1, a2>>)
            rem == remove_liquidity_call(token1_wallet, token2_wallet, predecessor, <<a1, a2>>)
        IN /\ WalletTotal(add.t1w) = WalletTotal(token1_wallet)
           /\ WalletTotal(add.t2w) = WalletTotal(token2_wallet)
           /\ WalletTotal(rem.t1w) = WalletTotal(token1_wallet)
           /\ WalletTotal(rem.t2w) = WalletTotal(token2_wallet)
           /\ IsSome(add.t1w) = IsSome(token1_wallet) /\ IsSome(add.t2w) = IsSome(token2_wallet)
           /\ IsSome(rem.t1w) = IsSome(token1_wallet) /\ IsSome(rem.t2w) = IsSome(token2_wallet)

(* Both wallets hold deposit and liquidity: moves of different amounts on  *)
(* the two sides succeed in both directions, and a move fails half-way.    *)
C28_Witness ==
    /\ BothPresent
    /\ WalletTotal(token1_wallet) # WalletTotal(token2_wallet)
    /\ add_liquidity_call(token1_wallet, token2_wallet, owner_id, <<1, 2>>).res = "ok"
    /\ remove_liquidity_call(token1_wallet, token2_wallet, owner_id, <<2, 1>>).res = "ok"
    /\ add_liquidity_call(token1_wallet, token2_wallet, owner_id, <<1, U128Max>>).res = "err"

(* C29: once both wallets are installed no step changes which asset id a   *)
(* slot holds: slot 1 keeps its id and slot 2 keeps its id.                *)
C29_SlotsNeverReordered ==
    [][BothPresent =>
          /\ Unwrap(token1_wallet').token_id = Unwrap(token1_wallet).token_id
          /\ Unwrap(token2_wallet').token_id = Unwrap(token2_wallet).token_id]_vars

(* C30: whenever both wallets are present, slot 1 and slot 2 hold          *)
(* different asset ids.                                                    *)
C30_AssetIdsAreUnique ==
    BothPresent => Unwrap(token1_wallet).token_id # Unwrap(token2_wallet).token_id

(* What the swap p pays into (+) or out of (-) the liquidity of a slot.    *)
SlotDelta(p, slot) ==
    IF p.token1_is_input = (slot = 1) THEN p.amount_in ELSE 0 - p.transfer.amount

(* The pool holds enough of each asset for the transfers of both p and q.  *)
BothPayable(p, q) ==
    \A t \in Tokens :
        Unwrap(held)[t] >= (IF p.transfer.token = t THEN p.transfer.amount ELSE 0)
                           + (IF q.transfer.token = t THEN q.transfer.amount ELSE 0)

(* C25: when two swaps computed from the committed pool are suspended      *)
(* together and both transfers succeed, the liquidity committed after both *)
(* callbacks, in either order, is the pre-swap liquidity plus what both    *)
(* swaps paid in and minus what both paid out.                             *)
C25_OverlappingSwapsBothCount ==
    \A p \in BagToSet(swaps), q \in BagToSet(swaps) :
        (/\ p # q \/ CopiesIn(p, swaps) >= 2
         /\ ~PoolChangedSince(p, token1_wallet, token2_wallet)
         /\ ~PoolChangedSince(q, token1_wallet, token2_wallet)
         /\ BothPayable(p, q))
        => LET first == on_swap_complete_call(token1_wallet, token2_wallet, p, "Ok")
               both == on_swap_complete_call(first.t1w, first.t2w, q, "Ok")
           IN /\ Unwrap(both.t1w).liquidity
                    = Unwrap(token1_wallet).liquidity + SlotDelta(p, 1) + SlotDelta(q, 1)
              /\ Unwrap(both.t2w).liquidity
                    = Unwrap(token2_wallet).liquidity + SlotDelta(p, 2) + SlotDelta(q, 2)

(* C27: with no swap in flight, each wallet's deposit + liquidity is at    *)
(* most the balance of its asset that the pool holds.                      *)
C27_FundsNeverDoubleCounted ==
    (BothPresent /\ IsSome(held) /\ swaps = EmptyBag) =>
        /\ WalletTotal(token1_wallet) <= Unwrap(held)[Unwrap(token1_wallet).token_id]
        /\ WalletTotal(token2_wallet) <= Unwrap(held)[Unwrap(token2_wallet).token_id]

(* C31: outside add_liquidity / remove_liquidity, the provisioning         *)
(* callback and the swap callback, no call writes a balance: every         *)
(* inbound transfer, whatever its sender, token, amount and message, and   *)
(* whether it is refused or kept, leaves both wallets as they are.         *)
C31_TransfersWriteNoBalance ==
    \A token_id \in Tokens, sender_id \in Accounts, amount \in Amounts, msg \in Msgs :
        LET r == Transfer(token_id, sender_id, amount, msg)
        IN /\ r.t1w = token1_wallet
           /\ r.t2w = token2_wallet

(* C33: for all u128 inputs compute_tokens_ratio returns their exact       *)
(* product, which fits the double width, and never its overflow error;     *)
(* so the ratio of the committed liquidities is their exact product.       *)
C33_RatioIsExactProduct ==
    /\ \A a \in Amounts, b \in Amounts :
          LET r == compute_tokens_ratio(a, b)
          IN r.ok /\ r.err = "" /\ r.val = a * b /\ r.val <= U256Max
    /\ BothPresent =>
          compute_tokens_ratio(Unwrap(token1_wallet).liquidity, Unwrap(token2_wallet).liquidity).val
             = Unwrap(token1_wallet).liquidity * Unwrap(token2_wallet).liquidity

(* A swap is suspended that was computed from a pool whose product of      *)
(* liquidities does not fit the single width.                              *)
C33_Witness ==
    \E p \in BagToSet(swaps) :
        /\ PreLiquidityIn(p) * PreLiquidityOut(p) > U128Max
        /\ compute_tokens_ratio(PreLiquidityIn(p), PreLiquidityOut(p)).val > U128Max

(* C32: the outcome of every issued transfer being delivered, every        *)
(* suspended swap is eventually no longer suspended; the step that         *)
(* resolves it takes it out once and is one of two things: the commit of   *)
(* its staged snapshots, its amount in kept by the pool and its amount out *)
(* gone (refund 0), or no change to the wallets and to what the pool       *)
(* holds (refund amount_in).                                               *)
C32_EverySwapResolvesOnce ==
    /\ \A p \in LiveSwaps : BagIn(p, swaps) ~> ~BagIn(p, swaps)
    /\ [][\A p \in BagToSet(swaps) :
             CopiesIn(p, swaps') # CopiesIn(p, swaps)
             => /\ CopiesIn(p, swaps') = CopiesIn(p, swaps) - 1
                /\ on_swap_complete_call(token1_wallet, token2_wallet, p, "Ok").refund = 0
                /\ on_swap_complete_call(token1_wallet, token2_wallet, p, "Err").refund = p.amount_in
                /\ \/ /\ <<token1_wallet', token2_wallet'>> = Staged(p)
                      /\ held' = Credit(Debit(held, p.transfer.token, p.transfer.amount),
                                        p.token_wallet_in.token_id, p.amount_in)
                   \/ /\ UNCHANGED <<token1_wallet, token2_wallet, held>>]_vars

(* A swap that moves both liquidities is suspended, the pool holds enough  *)
(* for its transfer, and its two outcomes leave different wallets.         *)
C32_Witness ==
    \E p \in LiveSwaps :
        /\ BagIn(p, swaps)
        /\ p.amount_in > 0
        /\ p.transfer.amount > 0
        /\ CanPay(held, p.transfer.token, p.transfer.amount)
        /\ on_swap_complete_call(token1_wallet, token2_wallet, p, "Ok").t1w
              # on_swap_complete_call(token1_wallet, token2_wallet, p, "Err").t1w

====
